---- MODULE Spec2Model ----
(***************************************************************************)
(* Model of the Marketplace client (src/marketplace/client.py) and of the  *)
(* reviewer onboarding loader (src/example/seed_onboarding_data.py).       *)
(*                                                                         *)
(* Python values are abstracted to their truth class ("falsy"/"truthy"),   *)
(* dictionaries to functions on the set of keys that are present, HTTP     *)
(* responses to their status code and the decoded fields the code reads.   *)
(* The marketplace server is the environment: it answers every request     *)
(* with a status chosen from a small set, and resolves each queued         *)
(* validation to "valid" or "invalid" at a moment of its own choosing.     *)
(***************************************************************************)
EXTENDS Integers, Sequences, FiniteSets

\* ------------------------------------------------------------------ bounds
MaxApps == 2      \* descriptors in reviewer_apps/ : 0..MaxApps
NumValIds == 3    \* validation ids the server may hand out: 1..NumValIds
MaxPolls == 3     \* polls after which the mocked validation is processed

ValIds == 1..NumValIds

\* ------------------------------------------------------- python truthiness
\* "truthy"/"falsy" stand for the values of a dictionary; None and False are
\* falsy, True and the status string 'pending' are truthy.
Truthy(v) == v \in {"truthy", "True", "pending"}

\* A descriptor file: the three fields main() copies into the update data.
Descriptors ==
    { [categories |-> "truthy", device_types |-> "truthy", privacy_policy |-> "truthy"],
      [categories |-> "falsy",  device_types |-> "truthy", privacy_policy |-> "truthy"],
      [categories |-> "truthy", device_types |-> "truthy", privacy_policy |-> "falsy"] }

VARIABLES
    \* ---- seed_onboarding_data.main
    apps,            \* the loaded descriptors (line 29)
    pc,              \* position of main: submit, poll, create, populate, done, error
    err,             \* which raise ended the run ("none" while running)
    validation_ids,  \* line 41
    pending,         \* line 42
    sweep,           \* ids of list(pending) the for loop has still to visit (line 44)
    appids,          \* line 67
    k,               \* index of the (app_id, app) pair of the populate loop (line 69)
    step,            \* next call of the populate loop body
    calls,           \* Client calls made by the create and populate phases, in order
    \* ---- the marketplace
    server,          \* validation state of each id: queued, valid, invalid
    never,           \* ids the server never processes
    \* ---- history of what the polls answered
    sawValid,        \* ids for which a poll answered 200, processed, valid
    sawInvalid,      \* ids for which a poll answered 200, processed, not valid
    \* ---- direct use of the Client
    cN,              \* the mocked validation is processed from poll number cN on
    cValid,          \* ... and is then reported valid or not
    cresp,           \* responses get_manifest_validation_result returned, in order
    cres,            \* what is_manifest_valid returned / raised for each of them
    lastCall         \* the last update / app_state call and what it sent

mainVars == <<apps, pc, err, validation_ids, pending, sweep, appids, k, step, calls,
              server, never, sawValid, sawInvalid>>
clientVars == <<cN, cValid, cresp, cres, lastCall>>
vars == <<mainVars, clientVars>>

\* ================================================================= Client
\* client.py:154-166, the assertion of Client.update. data is the dictionary:
\* a function whose domain is the set of keys present.
update_assert(data) ==
    /\ "name" \in DOMAIN data
    /\ Truthy(data["name"])
    /\ "summary" \in DOMAIN data
    /\ "categories" \in DOMAIN data
    /\ Truthy(data["categories"])
    /\ "support_email" \in DOMAIN data
    /\ Truthy(data["support_email"])
    /\ "device_types" \in DOMAIN data
    /\ Truthy(data["device_types"])
    /\ "premium_type" \in DOMAIN data
    /\ Truthy(data["premium_type"])
    /\ "privacy_policy" \in DOMAIN data
    /\ Truthy(data["privacy_policy"])

\* client.py:133-167. What one call of Client.update does: raise, or one PUT.
update(data) ==
    IF update_assert(data)
    THEN [outcome |-> "sent", method |-> "PUT", payload |-> data]
    ELSE [outcome |-> "raised", method |-> "none", payload |-> <<>>]

\* client.py:271, the assertion of Client.app_state.
app_state_assert(status, disabled_by_user) ==
    status # "None" \/ disabled_by_user # "None"

\* client.py:272-276, the payload Client.app_state builds.
app_state_data(status, disabled_by_user) ==
    LET keys == (IF Truthy(status) THEN {"status"} ELSE {})
                \cup (IF Truthy(disabled_by_user) THEN {"disabled_by_user"} ELSE {})
    IN  [x \in keys |-> IF x = "status" THEN status ELSE disabled_by_user]

\* client.py:246-278. What one call of Client.app_state does: raise, or one PATCH.
app_state(status, disabled_by_user) ==
    IF app_state_assert(status, disabled_by_user)
    THEN [outcome |-> "sent", method |-> "PATCH",
          payload |-> app_state_data(status, disabled_by_user)]
    ELSE [outcome |-> "raised", method |-> "none", payload |-> <<>>]

\* is_manifest_valid without the status test of client.py:103-104.
is_manifest_valid_no_status_check(response) ==
    IF ~response.processed THEN "None"
    ELSE IF response.valid THEN "True"
    ELSE "validation"

\* client.py:93-110. The result of is_manifest_valid for the response the poll
\* got: "raised", "None", "True" or "validation" (the body's validation payload).
is_manifest_valid(response) ==
    IF response.status # 200 THEN "raised"
    ELSE IF ~response.processed THEN "None"
    ELSE IF response.valid THEN "True"
    ELSE "validation"

\* The keys of the update dictionary and the dictionaries a caller may pass.
UpdateKeys == {"name", "summary", "categories", "support_email", "device_types",
               "premium_type", "privacy_policy"}
Dicts == UNION { [K -> {"falsy", "truthy"}] : K \in SUBSET UpdateKeys }
StatusArgs == {"None", "pending"}
DisabledArgs == {"None", "False", "True"}

\* What the mocked validation endpoint answers to poll number n (1-based).
MockContent(n) == [processed |-> n >= cN, valid |-> (n >= cN) /\ cValid]

NoCall == [op |-> "none", args |-> <<>>, outcome |-> "none", method |-> "none",
           payload |-> <<>>]

ClientInit ==
    /\ cN \in 1..MaxPolls
    /\ cValid \in BOOLEAN
    /\ cresp = <<>>
    /\ cres = <<>>
    /\ lastCall = NoCall

ClientIdle ==
    /\ cN = 1
    /\ cValid = TRUE
    /\ cresp = <<>>
    /\ cres = <<>>
    /\ lastCall = NoCall

\* A caller polls once more through is_manifest_valid.
CallIsManifestValid ==
    /\ lastCall = NoCall
    /\ Len(cresp) < MaxPolls + 1
    /\ \E status \in {200, 500} :
         LET n == Len(cresp) + 1
             response == [status |-> status,
                          processed |-> MockContent(n).processed,
                          valid |-> MockContent(n).valid]
         IN  /\ cresp' = Append(cresp, response)
             /\ cres' = Append(cres, is_manifest_valid(response))
    /\ UNCHANGED <<cN, cValid, lastCall, mainVars>>

\* A caller calls update with some dictionary.
CallUpdate ==
    /\ lastCall = NoCall
    /\ cresp = <<>>
    /\ \E data \in Dicts :
         LET r == update(data)
         IN  lastCall' = [op |-> "update", args |-> data, outcome |-> r.outcome,
                          method |-> r.method, payload |-> r.payload]
    /\ UNCHANGED <<cN, cValid, cresp, cres, mainVars>>

\* A caller calls app_state with some arguments.
CallAppState ==
    /\ lastCall = NoCall
    /\ cresp = <<>>
    /\ \E status \in StatusArgs, disabled_by_user \in DisabledArgs :
         LET r == app_state(status, disabled_by_user)
         IN  lastCall' = [op |-> "app_state",
                          args |-> [status |-> status,
                                    disabled_by_user |-> disabled_by_user],
                          outcome |-> r.outcome, method |-> r.method,
                          payload |-> r.payload]
    /\ UNCHANGED <<cN, cValid, cresp, cres, mainVars>>

\* ============================================== seed_onboarding_data.main
\* The set of the elements of a sequence: set(validation_ids), line 42.
set(s) == { s[i] : i \in DOMAIN s }

\* What the server answers to a poll of id: the decoded body, lines 50-52.
ServerContent(id) ==
    [processed |-> server[id] # "queued", valid |-> server[id] = "valid"]

\* Lines 73-79: the dictionary main() passes to update for a descriptor.
\* 'App %d', the e-mail address and 'free' are non-empty strings.
UpdateData(app) ==
    [name |-> "truthy", summary |-> "truthy", categories |-> app.categories,
     support_email |-> "truthy", device_types |-> app.device_types,
     privacy_policy |-> app.privacy_policy, premium_type |-> "truthy"]

\* Line 35: validate() accepts the submission.
validate_ok(status) == status = 201

\* The while test inverted.
while_pending_inverted(p) == p = {}

\* Line 43: the test of the while loop.
while_pending(p) == p # {}

\* The loop body without the processed test of line 51: whatever is not
\* invalid is taken off the pending set.
poll_branch_no_processed_test(status, content) ==
    IF status # 200 THEN "raise_status"
    ELSE IF content.processed /\ ~content.valid THEN "raise_invalid"
    ELSE "remove"

\* The loop body without the else branch of lines 54-56.
poll_branch_ignores_invalid(status, content) ==
    IF status # 200 THEN "raise_status"
    ELSE IF content.processed /\ content.valid THEN "remove"
    ELSE "keep"

\* The loop body without the pending.remove of line 53.
poll_branch_never_removes(status, content) ==
    IF status # 200 THEN "raise_status"
    ELSE IF content.processed /\ ~content.valid THEN "raise_invalid"
    ELSE "keep"

\* Lines 46-56: what the loop body does with one poll's answer:
\* "raise_status", "remove", "raise_invalid" or "keep".
poll_branch(status, content) ==
    IF status # 200 THEN "raise_status"
    ELSE IF content.processed
         THEN IF content.valid THEN "remove" ELSE "raise_invalid"
         ELSE "keep"

\* Line 63: creat() raises.
creat_fails(status) == status # 201

\* Line 81: the update response is refused.
update_fails(status) == status # 202

Raise(kind) == pc' = "error" /\ err' = kind

MainInit ==
    /\ apps \in UNION { [1..n -> Descriptors] : n \in 0..MaxApps }
    /\ pc = "submit"
    /\ err = "none"
    /\ validation_ids = <<>>
    /\ pending = {}
    /\ sweep = {}
    /\ appids = <<>>
    /\ k = 1
    /\ step = "update"
    /\ calls = <<>>
    /\ server = [id \in ValIds |-> "queued"]
    /\ sawValid = {}
    /\ sawInvalid = {}

\* Lines 33-41: one validate(app['manifest_url']) of the list comprehension.
\* The marketplace answers an accepted submission with the id of a new
\* validation, one it has not handed out before.
ValidateWith(Statuses) ==
    /\ pc = "submit"
    /\ Len(validation_ids) < Len(apps)
    /\ \E status \in Statuses, id \in ValIds \ set(validation_ids) :
         IF validate_ok(status)
         THEN /\ validation_ids' = Append(validation_ids, id)
              /\ UNCHANGED <<pc, err>>
         ELSE /\ Raise("submit")
              /\ UNCHANGED validation_ids
    /\ UNCHANGED <<apps, pending, sweep, appids, k, step, calls, server, never,
                   sawValid, sawInvalid, clientVars>>

\* Line 42: pending = set(validation_ids).
BeginPoll ==
    /\ pc = "submit"
    /\ Len(validation_ids) = Len(apps)
    /\ pending' = set(validation_ids)
    /\ pc' = "poll"
    /\ UNCHANGED <<apps, err, validation_ids, sweep, appids, k, step, calls, server,
                   never, sawValid, sawInvalid, clientVars>>

\* Lines 43-44: the while test, reached when the for loop has visited every
\* id of its snapshot; a new sweep takes list(pending).
WhileTest ==
    /\ pc = "poll"
    /\ sweep = {}
    /\ IF while_pending(pending)
       THEN sweep' = pending /\ pc' = pc
       ELSE sweep' = {} /\ pc' = "create"
    /\ UNCHANGED <<apps, err, validation_ids, pending, appids, k, step, calls, server,
                   never, sawValid, sawInvalid, clientVars>>

\* Lines 44-56: the body of the for loop for one id of the snapshot. The
\* iteration order of a set is not fixed: any remaining id may come next.
PollWith(Statuses) ==
    /\ pc = "poll"
    /\ sweep # {}
    /\ \E manifest_id \in sweep, status \in Statuses :
         LET content == ServerContent(manifest_id)
             branch == poll_branch(status, content)
         IN  /\ sweep' = sweep \ {manifest_id}
             /\ sawValid' = IF status = 200 /\ content.processed /\ content.valid
                            THEN sawValid \cup {manifest_id} ELSE sawValid
             /\ sawInvalid' = IF status = 200 /\ content.processed /\ ~content.valid
                              THEN sawInvalid \cup {manifest_id} ELSE sawInvalid
             /\ pending' = IF branch = "remove" THEN pending \ {manifest_id}
                           ELSE pending
             /\ IF branch = "raise_status" THEN Raise("poll_status")
                ELSE IF branch = "raise_invalid" THEN Raise("invalid")
                ELSE UNCHANGED <<pc, err>>
    /\ UNCHANGED <<apps, validation_ids, appids, k, step, calls, server, never,
                   clientVars>>

\* The list comprehension of line 67 walking the ids backwards.
create_order_reversed ==
    [i \in 1..Len(validation_ids) |-> validation_ids[Len(validation_ids) + 1 - i]]

\* Line 67: the sequence the list comprehension walks.
create_order == validation_ids

\* The id the marketplace gives the next created app (content['id'], line 66).
NewAppId == 100 + Len(appids)

\* Lines 60-67: one creat(vid) of the list comprehension.
CreateWith(Statuses) ==
    /\ pc = "create"
    /\ Len(appids) < Len(create_order)
    /\ \E status \in Statuses :
         LET vid == create_order[Len(appids) + 1]
         IN  /\ calls' = Append(calls, [op |-> "create", id |-> vid,
                                        outcome |-> "returned", status |-> status])
             /\ IF creat_fails(status)
                THEN Raise("create") /\ UNCHANGED appids
                ELSE appids' = Append(appids, NewAppId) /\ UNCHANGED <<pc, err>>
    /\ UNCHANGED <<apps, validation_ids, pending, sweep, k, step, server, never,
                   sawValid, sawInvalid, clientVars>>

\* Line 67 to line 69: the list comprehension is complete.
CreateDone ==
    /\ pc = "create"
    /\ Len(appids) = Len(create_order)
    /\ pc' = "populate"
    /\ UNCHANGED <<apps, err, validation_ids, pending, sweep, appids, k, step, calls,
                   server, never, sawValid, sawInvalid, clientVars>>

\* The populate loop stopping one pair early.
NumPairs_short ==
    IF Len(appids) < Len(apps) THEN Len(appids) - 1 ELSE Len(apps) - 1

\* Line 69: zip(appids, apps) has as many pairs as the shorter list.
NumPairs == IF Len(appids) < Len(apps) THEN Len(appids) ELSE Len(apps)

\* Lines 70-83: c.update for pair k. Client.update raises on its assertion
\* before any request is sent; otherwise the server answers.
UpdateWith(Statuses) ==
    /\ pc = "populate"
    /\ step = "update"
    /\ k <= NumPairs
    /\ IF update(UpdateData(apps[k])).outcome = "raised"
       THEN /\ calls' = Append(calls, [op |-> "update", id |-> appids[k],
                                       outcome |-> "raised", status |-> 0])
            /\ Raise("update_assert")
            /\ UNCHANGED step
       ELSE \E status \in Statuses :
              /\ calls' = Append(calls, [op |-> "update", id |-> appids[k],
                                         outcome |-> "returned", status |-> status])
              /\ IF update_fails(status)
                 THEN Raise("update") /\ UNCHANGED step
                 ELSE step' = "create_screenshot" /\ UNCHANGED <<pc, err>>
    /\ UNCHANGED <<apps, validation_ids, pending, sweep, appids, k, server, never,
                   sawValid, sawInvalid, clientVars>>

\* Line 85: c.create_screenshot for pair k. Opening the file may raise
\* (client.py:196); the response is not looked at.
ScreenshotWith(Statuses) ==
    /\ pc = "populate"
    /\ step = "create_screenshot"
    /\ \/ /\ calls' = Append(calls, [op |-> "create_screenshot", id |-> appids[k],
                                     outcome |-> "raised", status |-> 0])
          /\ Raise("screenshot_file")
          /\ UNCHANGED step
       \/ \E status \in Statuses :
            /\ calls' = Append(calls, [op |-> "create_screenshot", id |-> appids[k],
                                       outcome |-> "returned", status |-> status])
            /\ step' = "add_content_ratings"
            /\ UNCHANGED <<pc, err>>
    /\ UNCHANGED <<apps, validation_ids, pending, sweep, appids, k, server, never,
                   sawValid, sawInvalid, clientVars>>

\* Line 86: c.add_content_ratings for pair k; the response is not looked at.
\* The loop then moves to the next pair.
RatingsWith(Statuses) ==
    /\ pc = "populate"
    /\ step = "add_content_ratings"
    /\ \E status \in Statuses :
         calls' = Append(calls, [op |-> "add_content_ratings", id |-> appids[k],
                                 outcome |-> "returned", status |-> status])
    /\ step' = "update"
    /\ k' = k + 1
    /\ UNCHANGED <<apps, pc, err, validation_ids, pending, sweep, appids, server,
                   never, sawValid, sawInvalid, clientVars>>

\* Line 86, end of the for loop: main() returns.
PopulateDone ==
    /\ pc = "populate"
    /\ step = "update"
    /\ k > NumPairs
    /\ pc' = "done"
    /\ UNCHANGED <<apps, err, validation_ids, pending, sweep, appids, k, step, calls,
                   server, never, sawValid, sawInvalid, clientVars>>

\* The marketplace processes a queued validation (client.py:84-88): from
\* then on every poll of it reports processed, with the verdict reached.
ServerProcessWith(Verdicts) ==
    /\ \E id \in set(validation_ids) \ never, v \in Verdicts :
         /\ server[id] = "queued"
         /\ server' = [server EXCEPT ![id] = v]
    /\ UNCHANGED <<apps, pc, err, validation_ids, pending, sweep, appids, k, step,
                   calls, never, sawValid, sawInvalid, clientVars>>

\* ---------------------------------------------------------- specifications
Validate == ValidateWith({201, 500})
Poll == PollWith({200, 500})
Create == CreateWith({201, 500})
Update == UpdateWith({202, 500})
Screenshot == ScreenshotWith({201, 500})
Ratings == RatingsWith({201, 500})
ServerProcess == ServerProcessWith({"valid", "invalid"})

\* The onboarding run against a marketplace that may answer anything.
Init == MainInit /\ never = {} /\ ClientIdle

Next ==
    \/ Validate
    \/ BeginPoll
    \/ WhileTest
    \/ Poll
    \/ Create
    \/ CreateDone
    \/ Update
    \/ Screenshot
    \/ Ratings
    \/ PopulateDone
    \/ ServerProcess

Spec == Init /\ [][Next]_vars

\* Direct calls of the Client's methods.
ClientSpecInit == MainInit /\ apps = <<>> /\ never = {} /\ ClientInit

ClientNext ==
    \/ CallIsManifestValid
    \/ CallUpdate
    \/ CallAppState

ClientSpec == ClientSpecInit /\ [][ClientNext]_vars

\* The onboarding run against a marketplace whose polls always answer 200
\* and whose validations, once processed, are valid; the ids in never are
\* not processed at all. main() is a sequential program that keeps running,
\* and the marketplace keeps processing what it is going to process.
LivePoll == PollWith({200})
LiveServerProcess == ServerProcessWith({"valid"})

LiveInit == MainInit /\ never \in SUBSET ValIds /\ ClientIdle

LiveMain ==
    \/ Validate
    \/ BeginPoll
    \/ WhileTest
    \/ LivePoll
    \/ Create
    \/ CreateDone
    \/ Update
    \/ Screenshot
    \/ Ratings
    \/ PopulateDone

LiveNext == LiveMain \/ LiveServerProcess

LiveSpec ==
    LiveInit /\ [][LiveNext]_vars /\ WF_vars(LiveMain) /\ WF_vars(LiveServerProcess)

\* ================================================================= claims
IsCreate(c) == c.op = "create"
IsPopulate(c) == c.op \in {"update", "create_screenshot", "add_content_ratings"}
CreateCalls == SelectSeq(calls, IsCreate)
PopulateCalls == SelectSeq(calls, IsPopulate)

\* The documented success code of each operation (client.py docstrings).
SuccessCode(op) == IF op = "update" THEN 202 ELSE 201
Succeeded(c) == c.outcome = "returned" /\ c.status = SuccessCode(c.op)
PopulateOrder == <<"update", "create_screenshot", "add_content_ratings">>

\* The poll loop has been left: by falling out of the while, or by a raise
\* inside it.
LeftLoop ==
    \/ pc \in {"create", "populate", "done"}
    \/ pc = "error" /\ err # "submit"

\* C1: create is called for a validation id only after a poll of that id
\* answered 200, processed and valid; and once any create has been called,
\* every submitted validation id has been seen valid and none is pending.
C1_CreateOnlyAfterValid ==
    /\ \A i \in DOMAIN calls :
         IsCreate(calls[i]) => calls[i].id \in sawValid
    /\ (\E i \in DOMAIN calls : IsCreate(calls[i])) =>
         /\ pending = {}
         /\ set(validation_ids) \subseteq sawValid

C1_Witness ==
    /\ Len(CreateCalls) = 2
    /\ Cardinality(sawValid) = 2

\* C2: once a poll has answered processed and not valid, the run has aborted
\* and no create, update, create_screenshot or add_content_ratings call has
\* been or will be made.
C2_InvalidAbortsBatch ==
    sawInvalid # {} => pc = "error" /\ err = "invalid" /\ calls = <<>>

C2_Witness ==
    /\ sawInvalid # {}
    /\ sawValid # {}
    /\ pc = "error"

\* C3: update raises and sends nothing when any of the seven keys is missing
\* or falsy, and sends the PUT only when all seven are present and truthy.
C3_UpdateRequiresAllSeven ==
    lastCall.op = "update" =>
        (lastCall.outcome = "sent" <=>
            \A key \in UpdateKeys :
                key \in DOMAIN lastCall.args /\ lastCall.args[key] = "truthy")

\* C4: a populate call answered with a status other than its success code is
\* the last call of the run.
C4_PopulateAbortsOnBadStatus ==
    \A i \in DOMAIN calls :
        (IsPopulate(calls[i]) /\ calls[i].outcome = "returned"
            /\ calls[i].status # SuccessCode(calls[i].op))
        => i = Len(calls)

\* C5: when main() returns after a run in which every call succeeded, it
\* has created one app per descriptor and made exactly the calls update,
\* create_screenshot, add_content_ratings for each app id, app after app in
\* the order of creation, all after the last create.
C5_SuccessfulRunPopulatesAll ==
    (pc = "done" /\ \A i \in DOMAIN calls : Succeeded(calls[i])) =>
        /\ Len(appids) = Len(apps)
        /\ calls = CreateCalls \o PopulateCalls
        /\ Len(PopulateCalls) = 3 * Len(appids)
        /\ \A i \in DOMAIN PopulateCalls :
             /\ PopulateCalls[i].op = PopulateOrder[((i - 1) % 3) + 1]
             /\ PopulateCalls[i].id = appids[((i - 1) \div 3) + 1]
        /\ \A i, j \in DOMAIN appids : i # j => appids[i] # appids[j]

C5_Witness ==
    /\ pc = "done"
    /\ Len(appids) = 2
    /\ \A i \in DOMAIN calls : Succeeded(calls[i])

\* C6 as stated: whenever the poll loop has been left, the pending set is
\* empty or an invalid manifest was found.
C6_LoopExitsOnlyEmptyOrInvalid ==
    LeftLoop => (pending = {} \/ sawInvalid # {})

\* C6 as amended: whenever the poll loop has been left, the pending set is
\* empty, or an invalid manifest was found, or a poll answered a status
\* other than 200.
C6_LoopExitsEmptyInvalidOrBadStatus ==
    LeftLoop => (pending = {} \/ sawInvalid # {} \/ err = "poll_status")

C6_Witness ==
    /\ pc = "create"
    /\ pending = {}
    /\ Cardinality(sawValid) = 2

\* C7: is_manifest_valid raises when the poll's status is not 200, returns
\* None while processed is false, True when processed and valid, and the
\* validation payload when processed and not valid; against a server that
\* turns valid at poll cN and always answers 200, the results are cN - 1
\* times None and True from then on.
C7_IsManifestValidResults ==
    /\ Len(cres) = Len(cresp)
    /\ \A i \in DOMAIN cresp :
         LET r == cresp[i]
         IN  /\ r.status # 200 => cres[i] = "raised"
             /\ (r.status = 200 /\ ~r.processed) => cres[i] = "None"
             /\ (r.status = 200 /\ r.processed /\ r.valid) => cres[i] = "True"
             /\ (r.status = 200 /\ r.processed /\ ~r.valid) => cres[i] = "validation"
    /\ (cValid /\ \A i \in DOMAIN cresp : cresp[i].status = 200) =>
         \A i \in DOMAIN cres : cres[i] = IF i < cN THEN "None" ELSE "True"

C7_Witness ==
    /\ cValid
    /\ cN = MaxPolls
    /\ Len(cres) = cN
    /\ \A i \in DOMAIN cresp : cresp[i].status = 200
    /\ cres[cN] = "True"
    /\ cres[cN - 1] = "None"

\* C8: the create calls are made for the validation ids in submission
\* order; a create answered with a status other than 201 is the last call of
\* the run, which has aborted; and a populate call is made only after create
\* was called for every validation id and answered 201 each time.
C8_CreateInSubmissionOrder ==
    /\ Len(CreateCalls) <= Len(validation_ids)
    /\ \A i \in DOMAIN CreateCalls : CreateCalls[i].id = validation_ids[i]
    /\ \A i \in DOMAIN calls :
         (IsCreate(calls[i]) /\ calls[i].status # 201) =>
             (i = Len(calls) /\ pc = "error" /\ err = "create")
    /\ PopulateCalls # <<>> =>
         /\ Len(CreateCalls) = Len(validation_ids)
         /\ \A i \in DOMAIN CreateCalls : CreateCalls[i].status = 201

C8_Witness ==
    /\ err = "create"
    /\ Len(validation_ids) = 2
    /\ validation_ids[1] > validation_ids[2]
    /\ Len(calls) = 1

\* C9: app_state raises when both arguments are None; every PATCH it sends
\* carries status or disabled_by_user; a call with only disabled_by_user
\* (False or True) sends disabled_by_user with that value.
C9_AppStatePayloadNotEmpty ==
    lastCall.op = "app_state" =>
        /\ (lastCall.args.status = "None" /\ lastCall.args.disabled_by_user = "None")
             => lastCall.outcome = "raised"
        /\ lastCall.outcome = "sent" => DOMAIN lastCall.payload # {}
        /\ (lastCall.args.status = "None" /\ lastCall.args.disabled_by_user # "None")
             => /\ lastCall.outcome = "sent"
                /\ "disabled_by_user" \in DOMAIN lastCall.payload
                /\ lastCall.payload["disabled_by_user"] = lastCall.args.disabled_by_user

\* C10 as stated, in the form a finished run refutes: when every poll
\* answers 200 and every submitted id turns valid, a run that got past
\* submission and has ended has called create for every submitted id.
C10_EndedRunCreatedAll ==
    (pc \in {"done", "error"} /\ err # "submit" /\ never \cap set(validation_ids) = {})
        => Len(CreateCalls) = Len(validation_ids)

\* C10 as amended: when every poll answers 200 and every submitted id turns
\* valid, the run eventually leaves the poll loop with an empty pending set
\* and calls create for the ids in submission order, for every one of them
\* unless a create is answered with a status other than 201; and if a
\* submitted id is never processed, the run stays in the poll loop for ever
\* and calls nothing.
C10_PollLoopLiveness ==
    /\ (pc = "poll" /\ never \cap pending = {})
         ~> (/\ pc \notin {"submit", "poll"}
             /\ pending = {}
             /\ (Len(CreateCalls) = Len(validation_ids) \/ err = "create"))
    /\ []((pc # "submit" /\ err # "submit" /\ never \cap set(validation_ids) # {})
            => (pc = "poll" /\ calls = <<>>))

C10_Witness ==
    /\ pc = "populate"
    /\ pending = {}
    /\ Len(validation_ids) = 2
    /\ Len(CreateCalls) = 2
    /\ never # {}

====
